---- MODULE Spec2Model ----
\* A model of the tsdocs documentation server: the docs resolution handlers
\* (trigger, poll, artifact serving), the preload extractor and its LRU cache.
\* Request paths are sequences of "/"-separated segments; attribute values of the
\* parsed HTML (script src, link href) are sequences of characters.
EXTENDS Integers, Sequences, FiniteSets, TLC

\* ---------------------------------------------------------------- bounds
\* Number of requests a behaviour issues (they may all be in flight together).
MaxReq == 2
\* Number of script/link elements of an HTML document given to the extractor.
MaxElems == 2

Req == 1..MaxReq

\* ---------------------------------------------------------------- strings
StartsWith(s, p) == Len(s) >= Len(p) /\ SubSeq(s, 1, Len(p)) = p

EndsWith(s, p) == Len(s) >= Len(p) /\ SubSeq(s, Len(s) - Len(p) + 1, Len(s)) = p

\* s.split(sep)[0]: the characters before the first sep.
RECURSIVE SplitHead(_, _)
SplitHead(s, sep) ==
  IF s = <<>> \/ Head(s) = sep THEN <<>>
  ELSE <<Head(s)>> \o SplitHead(Tail(s), sep)

\* s.split("/"): the segments of s (sequences of characters).
RECURSIVE SplitSlash(_)
SplitSlash(s) ==
  LET h == SplitHead(s, "/")
  IN IF Len(h) = Len(s) THEN <<h>>
     ELSE <<h>> \o SplitSlash(SubSeq(s, Len(h) + 2, Len(s)))

\* segments.join("/")
RECURSIVE JoinSlash(_)
JoinSlash(segs) ==
  IF segs = <<>> THEN <<>>
  ELSE IF Len(segs) = 1 THEN segs[1]
  ELSE segs[1] \o <<"/">> \o JoinSlash(Tail(segs))

\* ---------------------------------------------------------------- paths
\* Absolute directory under which every artifact is stored.
docsRootPath == <<"/var", "docs">>

\* path.join on segments: empty segments (a trailing or doubled "/") vanish.
PathJoin(segs) == SelectSeq(segs, LAMBDA s : s # "")

\* path.relative(docsRootPath, p) for p under docsRootPath.
PathRelative(p) == SubSeq(p, Len(docsRootPath) + 1, Len(p))

\* path.dirname
PathDirname(p) == SubSeq(p, 1, Len(p) - 1)

\* File names whose text ends in ".html".
HtmlNames == {"index.html"}

\* relativeDocsPath.endsWith(".html")
EndsWithHtml(p) == p # <<>> /\ p[Len(p)] \in HtmlNames

\* getDocsPath({packageName, packageVersion}): the artifact's directory.
getDocsPath(packageName, packageVersion) ==
  docsRootPath \o <<packageName, packageVersion>>

\* packageFromPath: (name, versionSpecifier, remainderFragment), or nothing when
\* the path does not have that shape.
packageFromPath(p) ==
  IF Len(p) >= 2 /\ p[1] # "" /\ p[2] # ""
  THEN [ok |-> TRUE, packageName |-> p[1], packageVersion |-> p[2],
        docsFragment |-> SubSeq(p, 3, Len(p))]
  ELSE [ok |-> FALSE, packageName |-> "", packageVersion |-> "",
        docsFragment |-> <<>>]

\* ---------------------------------------------------------------- registry
\* semver.valid: the specifier is an exact version.
semverValid(v) == v \in {"2.3.1", "1.0.0"}

\* The registry: the manifest (name, exact version) a specifier resolves to, or a
\* failure (ok = FALSE: resolvePackageJSON throws).
resolvePackageJSON(packageName, packageVersion) ==
  IF packageName = "pkgA" /\ packageVersion \in {"2.3.1", "^2", "^2.3"}
  THEN [ok |-> TRUE, name |-> "pkgA", version |-> "2.3.1"]
  ELSE IF packageName = "pkgB" /\ packageVersion \in {"1.0.0", "latest"}
  THEN [ok |-> TRUE, name |-> "pkgB", version |-> "1.0.0"]
  ELSE [ok |-> FALSE, name |-> "", version |-> ""]

\* ---------------------------------------------------------------- disk
\* A disk is a function from the absolute paths of the index.html files that
\* exist to their contents (the parsed document: its script and link elements).
checkFileExists(d, p) == p \in DOMAIN d

IndexOf(dir) == dir \o <<"index.html">>

\* ---------------------------------------------------------------- resolveDocsRequest
NoResolution ==
  [threw |-> FALSE, type |-> "none", packageName |-> "", packageVersion |-> "",
   docsPathDisk |-> <<>>, registry |-> FALSE]

\* resolveDocsRequest without the exact-version fast path.
resolveDocsRequestNoFastPath(packageName, packageVersion, force, d) ==
  LET packageJSON == resolvePackageJSON(packageName, packageVersion)
      docsPathDisk == getDocsPath(packageJSON.name, packageJSON.version)
  IN IF ~packageJSON.ok
     THEN [NoResolution EXCEPT !.threw = TRUE, !.registry = TRUE]
     ELSE [threw |-> FALSE,
           type |-> IF force THEN "miss"
                    ELSE IF checkFileExists(d, IndexOf(docsPathDisk))
                         THEN "hit" ELSE "miss",
           packageName |-> packageJSON.name,
           packageVersion |-> packageJSON.version,
           docsPathDisk |-> docsPathDisk,
           registry |-> TRUE]

\* resolveDocsRequest without the second look at the disk: past the fast path
\* every outcome is a miss.
resolveDocsRequestNoRecheck(packageName, packageVersion, force, d) ==
  IF ~force /\ semverValid(packageVersion)
     /\ checkFileExists(d, IndexOf(getDocsPath(packageName, packageVersion)))
  THEN [threw |-> FALSE, type |-> "hit", packageName |-> packageName,
        packageVersion |-> packageVersion,
        docsPathDisk |-> getDocsPath(packageName, packageVersion),
        registry |-> FALSE]
  ELSE [resolveDocsRequestNoFastPath(packageName, packageVersion, TRUE, d)
          EXCEPT !.type = IF @ = "none" THEN "none" ELSE "miss"]

\* A registry failure swallowed: the request goes on as a miss for what was asked.
resolveDocsRequestSwallow(packageName, packageVersion, force, d) ==
  LET packageJSON == resolvePackageJSON(packageName, packageVersion)
  IN IF packageJSON.ok
     THEN resolveDocsRequestNoFastPath(packageName, packageVersion, force, d)
     ELSE [threw |-> FALSE, type |-> "miss", packageName |-> packageName,
           packageVersion |-> packageVersion,
           docsPathDisk |-> getDocsPath(packageName, packageVersion),
           registry |-> TRUE]

resolveDocsRequest(packageName, packageVersion, force, d) ==
  IF ~force /\ semverValid(packageVersion)
     /\ checkFileExists(d, IndexOf(getDocsPath(packageName, packageVersion)))
  THEN [threw |-> FALSE, type |-> "hit", packageName |-> packageName,
        packageVersion |-> packageVersion,
        docsPathDisk |-> getDocsPath(packageName, packageVersion),
        registry |-> FALSE]
  ELSE
    LET packageJSON == resolvePackageJSON(packageName, packageVersion)
        docsPathDisk == getDocsPath(packageJSON.name, packageJSON.version)
    IN IF ~packageJSON.ok
       THEN [NoResolution EXCEPT !.threw = TRUE, !.registry = TRUE]
       ELSE [threw |-> FALSE,
             type |-> IF force THEN "miss"
                      ELSE IF checkFileExists(d, IndexOf(docsPathDisk))
                           THEN "hit" ELSE "miss",
             packageName |-> packageJSON.name,
             packageVersion |-> packageJSON.version,
             docsPathDisk |-> docsPathDisk,
             registry |-> TRUE]

\* ---------------------------------------------------------------- HTML documents
\* An element of a parsed document, in document order: its tag and its src
\* (script) or href (link) attribute; has = FALSE when the attribute is missing.
Elem(tag, val) == [tag |-> tag, has |-> TRUE, val |-> val]

NoAttr(tag) == [tag |-> tag, has |-> FALSE, val |-> <<>>]

\* "/shared/x.js"
SrcSharedX == <<"/", "s", "/", "x", ".", "j", "s">>
\* "./y.css"
HrefDotY == <<".", "/", "y", ".", "c", "s", "s">>
\* "/z.css?v=1"
HrefRootZ == <<"/", "z", ".", "c", "s", "s", "?", "v">>
\* "http://e/e.js"
SrcHttpE == <<"h", "t", "t", "p", ":", "/", "/", "e", ".", "j", "s">>
\* "//cdn/c.js"
SrcProtoC == <<"/", "/", "c", ".", "j", "s">>
\* "a/m.js"
SrcRelM == <<"a", "/", "m", ".", "j", "s">>
\* "../u.css"
HrefUpU == <<".", ".", "/", "u", ".", "c", "s", "s">>
\* "i.png"
HrefIcon == <<"i", ".", "p", "n", "g">>
\* "http.js": a local file whose name begins with "http"
SrcHttpLocal == <<"h", "t", "t", "p", ".", "j", "s">>

\* The documents of the generated artifacts.
DocD1 == <<Elem("script", SrcSharedX), Elem("link", HrefDotY)>>

DocD2 ==
  <<Elem("link", HrefIcon), Elem("script", SrcRelM), Elem("link", HrefRootZ),
    Elem("script", SrcHttpE)>>

\* What a generation may write as the index.html of a package.
GenDocs(name) == IF name = "pkgB" THEN {DocD1, DocD2} ELSE {DocD1}

\* ---------------------------------------------------------------- extractPreloadResources
\* A descriptor's url is abs (path segments, joined by "/") followed by tail
\* (characters): an attribute emitted unchanged has abs = <<>> and tail = the
\* attribute; a rewritten one has abs = "/docs/<directory relative to the docs
\* root>" and tail = the normalised relative reference.
Descriptor(url, as) == [url |-> url, rel |-> "preload", as |-> as]

Unchanged(src) == [abs |-> <<>>, tail |-> src]

\* path.join(dir, ref) for a relative reference ref: "." and empty segments vanish,
\* ".." removes the segment before it.
RECURSIVE JoinRef(_, _, _)
JoinRef(dir, kept, segs) ==
  IF segs = <<>> THEN [dir |-> dir, kept |-> kept]
  ELSE IF Head(segs) \in {<<>>, <<".">>} THEN JoinRef(dir, kept, Tail(segs))
  ELSE IF Head(segs) = <<".", ".">>
  THEN IF kept # <<>>
       THEN JoinRef(dir, SubSeq(kept, 1, Len(kept) - 1), Tail(segs))
       ELSE JoinRef(SubSeq(dir, 1, Len(dir) - 1), kept, Tail(segs))
  ELSE JoinRef(dir, Append(kept, Head(segs)), Tail(segs))

\* path.join("/docs", path.relative(docsRootPath, path.join(dirname(htmlPath), src)))
relativeDocsUrl(htmlPath, src) ==
  LET j == JoinRef(PathDirname(htmlPath), <<>>, SplitSlash(src))
  IN [abs |-> <<"/docs">> \o PathRelative(j.dir), tail |-> JoinSlash(j.kept)]

\* The mapping of one script src; NoDescriptor stands for null.
NoDescriptor == [url |-> [abs |-> <<>>, tail |-> <<>>], rel |-> "none", as |-> "none"]

scriptAsset(htmlPath, src) ==
  IF StartsWith(src, <<"/">>) THEN Descriptor(Unchanged(src), "script")
  ELSE IF ~StartsWith(src, <<"h", "t", "t", "p">>) /\ ~StartsWith(src, <<"/", "/">>)
  THEN Descriptor(relativeDocsUrl(htmlPath, src), "script")
  ELSE NoDescriptor

\* The mapping of one link href; undefined for a link that is not CSS.
linkAsset(htmlPath, href) ==
  LET pathName == SplitHead(href, "?")
  IN IF EndsWith(pathName, <<".", "c", "s", "s">>)
     THEN IF StartsWith(href, <<"/">>) THEN Descriptor(Unchanged(href), "style")
          ELSE IF ~StartsWith(href, <<"h", "t", "t", "p">>)
                  /\ ~StartsWith(href, <<"/", "/">>)
          THEN Descriptor(relativeDocsUrl(htmlPath, href), "style")
          ELSE NoDescriptor
     ELSE NoDescriptor

\* root.querySelectorAll(tag): the elements with that tag, in document order.
querySelectorAll(html, tag) == SelectSeq(html, LAMBDA e : e.tag = tag)

MapSeq(s, F(_)) == [i \in 1..Len(s) |-> F(s[i])]

FilterBoolean(s) == SelectSeq(s, LAMBDA x : x # NoDescriptor)

scriptAssets(htmlPath, html) ==
  LET srcs == SelectSeq(querySelectorAll(html, "script"),
                        LAMBDA e : e.has /\ e.val # <<>>)
  IN FilterBoolean(MapSeq(srcs, LAMBDA e : scriptAsset(htmlPath, e.val)))

linkAssets(htmlPath, html) ==
  FilterBoolean(MapSeq(querySelectorAll(html, "link"),
                       LAMBDA e : linkAsset(htmlPath, e.val)))

\* href.split on a link without href raises a TypeError.
linkThrows(html) == \E i \in 1..Len(html) : html[i].tag = "link" /\ ~html[i].has

jsAssets ==
  Descriptor(Unchanged(<<"/", "shared-dist", "/", "header", ".", "umd", ".", "js">>),
             "script")

\* The list with the script descriptors put before the style descriptors.
preloadAssetsScriptsFirst(htmlPath, html) ==
  scriptAssets(htmlPath, html) \o linkAssets(htmlPath, html) \o <<jsAssets>>

\* The list a cold extraction builds from the parsed document.
preloadAssets(htmlPath, html) ==
  linkAssets(htmlPath, html) \o scriptAssets(htmlPath, html) \o <<jsAssets>>

\* ---------------------------------------------------------------- preloadCache
\* The LRU cache: a sequence of entries, the most recently used first.
max == 500

cacheHas(cache, key) == \E i \in 1..Len(cache) : cache[i].key = key

cacheIndex(cache, key) == CHOOSE i \in 1..Len(cache) : cache[i].key = key

\* get: the value, and the entry becomes the most recently used.
cacheGet(cache, key) == cache[cacheIndex(cache, key)].value

cacheTouch(cache, key) ==
  <<cache[cacheIndex(cache, key)]>> \o SelectSeq(cache, LAMBDA e : e.key # key)

\* set: the entry becomes the most recently used; the least recently used
\* entries beyond max are evicted.
cacheSet(cache, key, value) ==
  LET c == <<[key |-> key, value |-> value]>>
           \o SelectSeq(cache, LAMBDA e : e.key # key)
  IN IF Len(c) > max THEN SubSeq(c, 1, max) ELSE c

\* The extractor trusting its cache only while the file still yields the list.
extractPreloadResourcesReread(htmlPath, cache, d) ==
  IF ~checkFileExists(d, htmlPath) \/ linkThrows(d[htmlPath])
  THEN [threw |-> TRUE, list |-> <<>>, cache |-> cache]
  ELSE LET assets == preloadAssets(htmlPath, d[htmlPath])
       IN IF cacheHas(cache, htmlPath) /\ cacheGet(cache, htmlPath) = assets
          THEN [threw |-> FALSE, list |-> assets,
                cache |-> cacheTouch(cache, htmlPath)]
          ELSE [threw |-> FALSE, list |-> assets,
                cache |-> cacheSet(cache, htmlPath, assets)]

\* extractPreloadResources(htmlPath): the list returned and the cache afterwards;
\* threw when the file cannot be read or a link has no href.
extractPreloadResources(htmlPath, cache, d) ==
  IF cacheHas(cache, htmlPath)
  THEN [threw |-> FALSE, list |-> cacheGet(cache, htmlPath),
        cache |-> cacheTouch(cache, htmlPath)]
  ELSE IF ~checkFileExists(d, htmlPath) \/ linkThrows(d[htmlPath])
  THEN [threw |-> TRUE, list |-> <<>>, cache |-> cache]
  ELSE LET assets == preloadAssets(htmlPath, d[htmlPath])
       IN [threw |-> FALSE, list |-> assets,
           cache |-> cacheSet(cache, htmlPath, assets)]

\* ---------------------------------------------------------------- responses
NoJob == <<>>

NoResponse ==
  [kind |-> "none", code |-> 0, status |-> "", name |-> "", jobId |-> NoJob,
   pollInterval |-> 0, errorCode |-> "", location |-> <<>>, maxAge |-> 0,
   hasLink |-> FALSE, link |-> <<>>]

\* res.send(body) / return body: a JSON body with status 200.
Json(status) == [NoResponse EXCEPT !.kind = "json", !.code = 200, !.status = status]

\* An exception that leaves the handler: the framework answers 500.
ServerError == [NoResponse EXCEPT !.kind = "error", !.code = 500]

\* `<https://tsdocs.dev${url}>; rel="${rel}"; as="${as}"`
LinkEntry(a) ==
  [target |-> [origin |-> "https://tsdocs.dev", url |-> a.url],
   rel |-> a.rel, as |-> a.as]

\* ---------------------------------------------------------------- the queue
\* The job id the trigger gives: `${name}@${version}`.
JobId(name, version) == <<name, "@", version>>

\* The id the queue gives a job added without one: the next counter value.
AutoId(n) == <<ToString(n)>>

NewJob(name, version, force) ==
  [name |-> name, version |-> version, force |-> force, state |-> "queued",
   failedReason |-> ""]

\* generateDocsQueue.add: a job whose id is already in the queue is not added
\* again (the existing job is the one handed back).
QueueAdd(js, id, job) ==
  IF id \in DOMAIN js THEN js
  ELSE [i \in DOMAIN js \cup {id} |-> IF i = id THEN job ELSE js[i]]

Terminal == {"completed", "failed"}

\* ---------------------------------------------------------------- state
VARIABLES
  disk,          \* the index.html files on disk and their contents
  jobs,          \* the generation queue: job id -> job
  nextJobId,     \* the queue's counter for jobs added without an id
  preloadCache,  \* the extractor's LRU cache
  req,           \* the requests: position in the handler, inputs, locals, response
  extracted,     \* what a direct call of extractPreloadResources returned
  search,        \* the search page: its React state, its calls, the location
  proxy          \* the object-storage worker: the bucket, the requests, the reply

vars == <<disk, jobs, nextJobId, preloadCache, req, extracted, search, proxy>>

NoExtraction == [called |-> FALSE, path |-> <<>>, threw |-> FALSE, list |-> <<>>]

\* The search page before it is rendered.
NoError == [errorCode |-> "", errorMessage |-> ""]

NoSearch ==
  [mounted |-> FALSE, crashed |-> FALSE, pkg |-> <<>>, status |-> "loading",
   error |-> NoError, route |-> <<>>, href |-> <<>>, calls |-> <<>>, applied |-> 0]

\* The object-storage worker with an empty bucket and no request served.
NoReply == [status |-> 0, body |-> <<>>, allow |-> "", etag |-> <<>>]

NoProxy ==
  [bucket |-> [k \in {} |-> <<>>], log |-> <<>>, reply |-> NoReply]

pollInterval == 2000

htmlMaxAge == 3600

restMaxAge == 60 * 60 * 8

\* The requests issued: the path (req.params["*"]) and the force flag.
TriggerInputs ==
  { <<<<"pkgA", "2.3.1">>, FALSE>>, <<<<"pkgA", "^2">>, FALSE>>,
    <<<<"pkgA", "^2.3">>, FALSE>>, <<<<"pkgA", "2.3.1">>, TRUE>>,
    <<<<"pkgB", "1.0.0">>, FALSE>>, <<<<"pkgB", "1.0.0">>, TRUE>>,
    <<<<"pkgA", "^9">>, FALSE>>, <<<<"">>, FALSE>> }

ServeInputs ==
  { <<<<"pkgA", "2.3.1", "index.html">>, FALSE>>,
    <<<<"pkgA", "^2", "index.html">>, FALSE>>,
    <<<<"pkgA", "2.3.1", "assets", "main.js">>, FALSE>>,
    <<<<"pkgA", "2.3.1", "index.html">>, TRUE>>,
    <<<<"pkgB", "1.0.0", "index.html">>, FALSE>>,
    <<<<"pkgB", "1.0.0", "index.html">>, TRUE>>,
    <<<<"">>, FALSE>> }

PollIds == { JobId("pkgA", "2.3.1"), JobId("pkgB", "1.0.0"), AutoId(1) }

FailureReasons == { "build timeout" }

Idle ==
  [pc |-> "idle", op |-> "none", path |-> <<>>, force |-> FALSE,
   res |-> NoResolution, job |-> NoJob, adds |-> 0, resp |-> NoResponse]

Init ==
  /\ disk = [p \in {IndexOf(getDocsPath("pkgB", "1.0.0"))} |-> DocD1]
  /\ extracted = NoExtraction
  /\ search = NoSearch
  /\ proxy = NoProxy
  /\ jobs = [i \in {} |-> NewJob("", "", FALSE)]
  /\ nextJobId = 1
  /\ preloadCache = <<>>
  /\ req = [r \in Req |-> Idle]

\* Requests are issued in slot order.
CanStart(r) == req[r].pc = "idle" /\ \A q \in Req : q < r => req[q].pc # "idle"

\* resolveDocsRequest called whatever packageFromPath gave.
ResolvedAlways(path, force, d) ==
  LET det == packageFromPath(path)
  IN resolveDocsRequest(det.packageName, det.packageVersion, force, d)

\* The handler's first part, up to the end of resolveDocsRequest.
Resolved(path, force, d) ==
  LET det == packageFromPath(path)
  IN IF det.ok THEN resolveDocsRequest(det.packageName, det.packageVersion, force, d)
     ELSE NoResolution

Done(q, resp) == [q EXCEPT !.pc = "done", !.resp = resp]

\* ---------------------------------------------------------------- handlerAPIDocsTrigger
NotFoundBody ==
  [NoResponse EXCEPT !.kind = "json", !.code = 404, !.name = "PackageNotFoundError"]

\* The job id built from the requested specifier instead of the manifest's version.
triggerJobIdRequested(q) ==
  JobId(q.res.packageName, packageFromPath(q.path).packageVersion)

\* jobId: `${packageJSON.name}@${packageJSON.version}`
triggerJobId(q) == JobId(q.res.packageName, q.res.packageVersion)

\* From the call to the end of resolveDocsRequest; a hit is answered at once.
Trigger(r, path, force) ==
  /\ CanStart(r)
  /\ LET q == [req[r] EXCEPT !.op = "trigger", !.path = path, !.force = force,
                             !.res = Resolved(path, force, disk)]
     IN req' = [req EXCEPT ![r] =
          IF ~packageFromPath(path).ok THEN Done(q, NotFoundBody)
          ELSE IF q.res.threw THEN Done(q, ServerError)
          ELSE IF q.res.type = "hit" THEN Done(q, Json("success"))
          ELSE [q EXCEPT !.pc = "resolved"]]
  /\ UNCHANGED <<disk, jobs, nextJobId, preloadCache, extracted, search, proxy>>

\* generateDocsQueue.add with the jobId, then the "queued" answer.
TriggerSubmit(r) ==
  /\ req[r].pc = "resolved" /\ req[r].op = "trigger"
  /\ LET id == triggerJobId(req[r])
         q == [req[r] EXCEPT !.job = id, !.adds = @ + 1]
     IN /\ jobs' = QueueAdd(jobs, id,
                     NewJob(q.res.packageName, q.res.packageVersion, q.force))
        /\ req' = [req EXCEPT ![r] =
             Done(q, [Json("queued") EXCEPT !.jobId = id,
                                            !.pollInterval = pollInterval])]
  /\ UNCHANGED <<disk, nextJobId, preloadCache, extracted, search, proxy>>

\* ---------------------------------------------------------------- handlerAPIDocsPoll
\* The poll without its isFailed branch.
pollResponseNoFailed(js, jobId) ==
  IF jobId \notin DOMAIN js
  THEN [NoResponse EXCEPT !.kind = "status", !.code = 404]
  ELSE IF js[jobId].state = "completed" THEN Json("success")
  ELSE Json("queued")

pollResponse(js, jobId) ==
  IF jobId \notin DOMAIN js
  THEN [NoResponse EXCEPT !.kind = "status", !.code = 404]
  ELSE IF js[jobId].state = "completed" THEN Json("success")
  ELSE IF js[jobId].state = "failed"
  THEN [Json("failed") EXCEPT !.errorCode = js[jobId].failedReason]
  ELSE Json("queued")

Poll(r, jobId) ==
  /\ CanStart(r)
  /\ req' = [req EXCEPT ![r] =
       Done([req[r] EXCEPT !.op = "poll", !.job = jobId], pollResponse(jobs, jobId))]
  /\ UNCHANGED <<disk, jobs, nextJobId, preloadCache, extracted, search, proxy>>

\* ---------------------------------------------------------------- handlerDocsHTML
\* The id of the job the serving handler adds: it passes no jobId, so the queue
\* numbers the job.
serveJobId(q, n) == AutoId(n)

\* The handler going on without awaiting the job's end.
waitUntilFinishedNoWait(js, id) == id \in DOMAIN js

\* job.waitUntilFinished has returned or thrown.
waitUntilFinished(js, id) == id \in DOMAIN js /\ js[id].state \in Terminal

\* resolvedPath: path.join(packageName, packageVersion, docsFragment) of the
\* resolved request.
resolvedPathOf(q) ==
  PathJoin(<<q.res.packageName, q.res.packageVersion>>
           \o packageFromPath(q.path).docsFragment)

\* The comparison inverted.
needsRedirectInverted(paramsPath, resolvedPath) == paramsPath = resolvedPath

\* paramsPath !== resolvedPath
needsRedirect(paramsPath, resolvedPath) == paramsPath # resolvedPath

\* The Link header without its first entry.
linkHeaderContentTail(list) == Tail(MapSeq(list, LinkEntry))

\* The entries of the Link header (joined by ", ").
linkHeaderContent(list) == MapSeq(list, LinkEntry)

\* From the canonical path on: the response and the cache afterwards.
serveResponse(q, cache, d) ==
  LET docsFragment == packageFromPath(q.path).docsFragment
      resolvedPath == resolvedPathOf(q)
      resolvedAbsolutePath == PathJoin(q.res.docsPathDisk \o docsFragment)
      relativeDocsPath == PathRelative(resolvedAbsolutePath)
      x == extractPreloadResources(resolvedAbsolutePath, cache, d)
  IN IF needsRedirect(q.path, resolvedPath)
     THEN [resp |-> [NoResponse EXCEPT !.kind = "redirect", !.code = 302,
                                       !.location = <<"docs">> \o resolvedPath],
           cache |-> cache]
     ELSE IF EndsWithHtml(relativeDocsPath)
     THEN IF x.threw THEN [resp |-> ServerError, cache |-> cache]
          ELSE [resp |-> [NoResponse EXCEPT !.kind = "file", !.code = 200,
                            !.location = relativeDocsPath, !.maxAge = htmlMaxAge,
                            !.hasLink = TRUE, !.link = linkHeaderContent(x.list)],
                cache |-> x.cache]
     ELSE [resp |-> [NoResponse EXCEPT !.kind = "file", !.code = 200,
                       !.location = relativeDocsPath, !.maxAge = restMaxAge],
           cache |-> cache]

\* From the call to the end of resolveDocsRequest; a hit is answered at once.
Serve(r, path, force) ==
  /\ CanStart(r)
  /\ LET q == [req[r] EXCEPT !.op = "serve", !.path = path, !.force = force,
                             !.res = Resolved(path, force, disk)]
         out == serveResponse(q, preloadCache, disk)
     IN IF ~packageFromPath(path).ok
        THEN /\ req' = [req EXCEPT ![r] =
                  Done(q, [NoResponse EXCEPT !.kind = "status", !.code = 404])]
             /\ UNCHANGED preloadCache
        ELSE IF q.res.threw
        THEN /\ req' = [req EXCEPT ![r] = Done(q, ServerError)]
             /\ UNCHANGED preloadCache
        ELSE IF q.res.type = "hit"
        THEN /\ req' = [req EXCEPT ![r] = Done(q, out.resp)]
             /\ preloadCache' = out.cache
        ELSE /\ req' = [req EXCEPT ![r] = [q EXCEPT !.pc = "resolved"]]
             /\ UNCHANGED preloadCache
  /\ UNCHANGED <<disk, jobs, nextJobId, extracted, search, proxy>>

\* generateDocsQueue.add, then the request waits for the job.
ServeSubmit(r) ==
  /\ req[r].pc = "resolved" /\ req[r].op = "serve"
  /\ LET id == serveJobId(req[r], nextJobId)
     IN /\ jobs' = QueueAdd(jobs, id,
                     NewJob(req[r].res.packageName, req[r].res.packageVersion,
                            req[r].force))
        /\ req' = [req EXCEPT ![r] =
             [@ EXCEPT !.pc = "waiting", !.job = id, !.adds = @ + 1]]
  /\ nextJobId' = nextJobId + 1
  /\ UNCHANGED <<disk, preloadCache, extracted, search, proxy>>

\* The failed job submitted again instead of the error being passed on.
afterWaitRetry(q, js, cache, d) ==
  LET out == serveResponse(q, cache, d)
  IN IF js[q.job].state = "failed"
     THEN [q |-> [q EXCEPT !.pc = "resolved"], cache |-> cache]
     ELSE [q |-> Done(q, out.resp), cache |-> out.cache]

\* After waitUntilFinished: it throws when the job failed and the exception leaves
\* the handler; else the handler goes on to the response.
afterWait(q, js, cache, d) ==
  LET out == serveResponse(q, cache, d)
  IN IF js[q.job].state = "failed"
     THEN [q |-> Done(q, ServerError), cache |-> cache]
     ELSE [q |-> Done(q, out.resp), cache |-> out.cache]

ServeResume(r) ==
  /\ req[r].pc = "waiting"
  /\ waitUntilFinished(jobs, req[r].job)
  /\ LET out == afterWait(req[r], jobs, preloadCache, disk)
     IN /\ req' = [req EXCEPT ![r] = out.q]
        /\ preloadCache' = out.cache
  /\ UNCHANGED <<disk, jobs, nextJobId, extracted, search, proxy>>

\* ---------------------------------------------------------------- the worker
JobActivate(id) ==
  /\ id \in DOMAIN jobs /\ jobs[id].state = "queued"
  /\ jobs' = [jobs EXCEPT ![id].state = "active"]
  /\ UNCHANGED <<disk, nextJobId, preloadCache, req, extracted, search, proxy>>

\* The generator has written the artifact of the job's package version.
JobComplete(id, doc) ==
  /\ id \in DOMAIN jobs /\ jobs[id].state = "active"
  /\ jobs' = [jobs EXCEPT ![id].state = "completed"]
  /\ LET idx == IndexOf(getDocsPath(jobs[id].name, jobs[id].version))
     IN disk' = [p \in DOMAIN disk \cup {idx} |-> IF p = idx THEN doc ELSE disk[p]]
  /\ UNCHANGED <<nextJobId, preloadCache, req, extracted, search, proxy>>

JobFail(id, reason) ==
  /\ id \in DOMAIN jobs /\ jobs[id].state = "active"
  /\ jobs' = [jobs EXCEPT ![id].state = "failed", ![id].failedReason = reason]
  /\ UNCHANGED <<disk, nextJobId, preloadCache, req, extracted, search, proxy>>

\* The queue drops a finished job nobody waits for.
JobReap(id) ==
  /\ id \in DOMAIN jobs /\ jobs[id].state \in Terminal
  /\ \A r \in Req : ~(req[r].pc = "waiting" /\ req[r].job = id)
  /\ jobs' = [i \in DOMAIN jobs \ {id} |-> jobs[i]]
  /\ UNCHANGED <<disk, nextJobId, preloadCache, req, extracted, search, proxy>>

\* ---------------------------------------------------------------- specification
Next ==
  \/ \E r \in Req, in \in TriggerInputs : Trigger(r, in[1], in[2])
  \/ \E r \in Req : TriggerSubmit(r)
  \/ \E r \in Req, jobId \in PollIds : Poll(r, jobId)
  \/ \E r \in Req, in \in ServeInputs : Serve(r, in[1], in[2])
  \/ \E r \in Req : ServeSubmit(r)
  \/ \E r \in Req : ServeResume(r)
  \/ \E id \in DOMAIN jobs : JobActivate(id)
  \/ \E id \in DOMAIN jobs : \E doc \in GenDocs(jobs[id].name) : JobComplete(id, doc)
  \/ \E id \in DOMAIN jobs, reason \in FailureReasons : JobFail(id, reason)
  \/ \E id \in DOMAIN jobs : JobReap(id)

Spec == Init /\ [][Next]_vars

\* ---------------------------------------------------------------- the extractor alone
\* The elements the documents given to the extractor are made of.
SampleElems ==
  { Elem("script", SrcSharedX), Elem("script", SrcHttpE), Elem("script", SrcProtoC),
    Elem("script", SrcRelM), Elem("script", SrcHttpLocal), Elem("script", <<>>),
    NoAttr("script"),
    Elem("link", HrefDotY), Elem("link", HrefRootZ), Elem("link", HrefUpU),
    Elem("link", HrefIcon), NoAttr("link") }

SampleDocs == UNION { [1..n -> SampleElems] : n \in 0..MaxElems }

ExtractPath == IndexOf(getDocsPath("pkgB", "1.0.0"))

InitExtract ==
  /\ disk \in [{ExtractPath} -> SampleDocs]
  /\ jobs = [i \in {} |-> NewJob("", "", FALSE)]
  /\ nextJobId = 1
  /\ preloadCache = <<>>
  /\ req = [r \in Req |-> Idle]
  /\ extracted = NoExtraction
  /\ search = NoSearch
  /\ proxy = NoProxy

\* A call of extractPreloadResources(htmlPath).
Extract(htmlPath) ==
  /\ LET x == extractPreloadResources(htmlPath, preloadCache, disk)
     IN /\ extracted' = [called |-> TRUE, path |-> htmlPath, threw |-> x.threw,
                          list |-> x.list]
        /\ preloadCache' = x.cache
  /\ UNCHANGED <<disk, jobs, nextJobId, req, search, proxy>>

NextExtract == Extract(ExtractPath)

SpecExtract == InitExtract /\ [][NextExtract]_vars

\* ---------------------------------------------------------------- the cache when full
\* The artifact pages extracted; the first is the cache's oldest entry.
CachePaths ==
  << IndexOf(getDocsPath("pkgA", "2.3.1")), IndexOf(getDocsPath("pkgB", "1.0.0")),
     IndexOf(getDocsPath("pkgB", "2.0.0")) >>

\* The cache entry of another artifact page, one without assets of its own.
Filler(i) ==
  LET htmlPath == IndexOf(getDocsPath("filler", ToString(i)))
  IN [key |-> htmlPath, value |-> preloadAssets(htmlPath, <<>>)]

\* A server that has run for a while: the cache holds max - 1 or max entries and
\* the least recently used one is the first page's, extracted from DocD1.
InitCache ==
  /\ disk \in [{CachePaths[i] : i \in 1..3} -> {DocD1, DocD2}]
  /\ \E n \in {max - 2, max - 1} :
       preloadCache = [i \in 1..n |-> Filler(i)]
                      \o <<[key |-> CachePaths[1],
                            value |-> preloadAssets(CachePaths[1], DocD1)]>>
  /\ jobs = [i \in {} |-> NewJob("", "", FALSE)]
  /\ nextJobId = 1
  /\ req = [r \in Req |-> Idle]
  /\ extracted = NoExtraction
  /\ search = NoSearch
  /\ proxy = NoProxy

\* A forced generation has written the page again.
Regenerate(htmlPath, doc) ==
  /\ disk[htmlPath] # doc
  /\ disk' = [disk EXCEPT ![htmlPath] = doc]
  /\ UNCHANGED <<jobs, nextJobId, preloadCache, req, extracted, search, proxy>>

NextCache ==
  \/ \E i \in 1..3 : Extract(CachePaths[i])
  \/ \E i \in 1..3, doc \in {DocD1, DocD2} : Regenerate(CachePaths[i], doc)

SpecCache == InitCache /\ [][NextCache]_vars

\* ---------------------------------------------------------------- the search page
\* Number of searches (getPackageDocs calls) a behaviour of the page makes.
MaxCalls == 3

\* The packages searched for, and the pkg prop of the page ([] when no package
\* is in the route).
SearchPkgs == { <<"pkgA", "2.3.1">>, <<"pkgB", "1.0.0">> }

MountInputs == SearchPkgs \cup { <<>> }

\* pkgArray.join("/"): the empty array gives the empty string.
pkgJoin(pkgArray) == IF pkgArray = <<>> THEN <<"">> ELSE pkgArray

\* What getPackageDocs may give: a result with status "success", a result with
\* another status and its error fields, or an exception.
DocsResults ==
  { [kind |-> "success", errorCode |-> "", errorMessage |-> ""],
    [kind |-> "failed", errorCode |-> "PackageNotFoundError",
     errorMessage |-> "not found"],
    [kind |-> "throw", errorCode |-> "", errorMessage |-> ""] }

\* searchAndRedirect up to its await: getPackageDocs(pkg) is called.
searchAndRedirect(s, pkg) ==
  [s EXCEPT !.calls = Append(@, [pkg |-> pkg, state |-> "pending"])]

\* The rest of searchAndRedirect, once call i has ended with result.
searchSettled(s, i, result) ==
  LET t == [s EXCEPT !.calls[i].state = "done", !.applied = i]
  IN IF result.kind = "success"
     THEN [t EXCEPT !.href = <<"docs">> \o s.calls[i].pkg \o <<"index.html">>]
     ELSE IF result.kind = "failed"
     THEN [t EXCEPT !.status = "error",
                    !.error = [errorMessage |-> result.errorMessage,
                               errorCode |-> result.errorCode]]
     ELSE [t EXCEPT !.status = "error",
                    !.error = [errorMessage |-> "UNKNOWN_ERROR",
                               errorCode |->
                                 "Unexpected error when building the package"]]

\* The first render and its effect: the error is set for an empty pkgArray and
\* the render goes on; reading packageName of a path that does not parse throws,
\* and then no effect runs.
searchRender(s, pkgArray) ==
  LET t == IF pkgArray = <<>>
           THEN [s EXCEPT !.pkg = pkgArray, !.status = "error",
                          !.error = [errorCode |-> "NO_PACKAGE_SPECIFIED",
                                     errorMessage |->
                                       "No package name was specified"]]
           ELSE [s EXCEPT !.pkg = pkgArray]
  IN IF ~packageFromPath(pkgJoin(pkgArray)).ok
     THEN [t EXCEPT !.crashed = TRUE]
     ELSE searchAndRedirect([t EXCEPT !.mounted = TRUE], pkgJoin(pkgArray))

\* handleSearchSubmit
handleSearchSubmit(s, pkg) ==
  searchAndRedirect([s EXCEPT !.status = "loading", !.applied = 0,
                              !.route = <<"search", "docs">> \o pkg], pkg)

SearchMount(pkgArray) ==
  /\ ~search.mounted /\ ~search.crashed
  /\ search' = searchRender(search, pkgArray)
  /\ UNCHANGED <<disk, jobs, nextJobId, preloadCache, req, extracted, proxy>>

\* A search submitted in the header while the page is shown.
SearchSubmit(pkg) ==
  /\ search.mounted /\ search.href = <<>>
  /\ Len(search.calls) < MaxCalls
  /\ search' = handleSearchSubmit(search, pkg)
  /\ UNCHANGED <<disk, jobs, nextJobId, preloadCache, req, extracted, proxy>>

\* A getPackageDocs call ends while the page is still shown.
SearchSettle(i, result) ==
  /\ search.mounted /\ search.href = <<>>
  /\ i \in 1..Len(search.calls) /\ search.calls[i].state = "pending"
  /\ search' = searchSettled(search, i, result)
  /\ UNCHANGED <<disk, jobs, nextJobId, preloadCache, req, extracted, proxy>>

NextSearch ==
  \/ \E pkgArray \in MountInputs : SearchMount(pkgArray)
  \/ \E pkg \in SearchPkgs : SearchSubmit(pkg)
  \/ \E i \in 1..MaxCalls, result \in DocsResults : SearchSettle(i, result)

SpecSearch == Init /\ [][NextSearch]_vars

\* ---------------------------------------------------------------- the object-storage worker
\* Number of requests a behaviour of the worker serves.
MaxOps == 3

\* url.pathname of the requests, as characters.
Pathnames == { <<"/", "a">>, <<"/", "b">>, <<"/", "a", "/", "b">> }

\* request.body of a PUT.
Bodies == { <<"v1">>, <<"v2">> }

Methods == { "PUT", "GET", "DELETE", "POST", "HEAD" }

\* s.slice(n)
slice(s, n) == SubSeq(s, n + 1, Len(s))

\* object.httpEtag: the bucket derives it from the stored content.
httpEtag(value) == <<"etag">> \o value

\* env.tsdocsReflections.put / delete: the bucket afterwards.
bucketPut(bucket, key, value) ==
  [k \in DOMAIN bucket \cup {key} |-> IF k = key THEN value ELSE bucket[k]]

bucketDelete(bucket, key) == [k \in DOMAIN bucket \ {key} |-> bucket[k]]

Response(status, body) == [NoReply EXCEPT !.status = status, !.body = body]

\* The worker whose DELETE answers without deleting.
fetchDeleteKeeps(bucket, method, pathname, body) ==
  LET key == slice(pathname, 1)
  IN CASE method = "PUT" ->
            [bucket |-> bucketPut(bucket, key, body),
             reply |-> Response(200, <<"Put ">> \o key \o <<" successfully!">>)]
       [] method = "GET" ->
            [bucket |-> bucket,
             reply |-> IF key \notin DOMAIN bucket
                       THEN Response(404, <<"Object Not Found">>)
                       ELSE [Response(200, bucket[key])
                               EXCEPT !.etag = httpEtag(bucket[key])]]
       [] method = "DELETE" ->
            [bucket |-> bucket, reply |-> Response(200, <<"Deleted!">>)]
       [] OTHER ->
            [bucket |-> bucket,
             reply |-> [Response(405, <<"Method Not Allowed">>)
                          EXCEPT !.allow = "PUT, GET, DELETE"]]

\* fetch(request, env): the bucket afterwards and the response.
fetch(bucket, method, pathname, body) ==
  LET key == slice(pathname, 1)
  IN CASE method = "PUT" ->
            [bucket |-> bucketPut(bucket, key, body),
             reply |-> Response(200, <<"Put ">> \o key \o <<" successfully!">>)]
       [] method = "GET" ->
            [bucket |-> bucket,
             reply |-> IF key \notin DOMAIN bucket
                       THEN Response(404, <<"Object Not Found">>)
                       ELSE [Response(200, bucket[key])
                               EXCEPT !.etag = httpEtag(bucket[key])]]
       [] method = "DELETE" ->
            [bucket |-> bucketDelete(bucket, key),
             reply |-> Response(200, <<"Deleted!">>)]
       [] OTHER ->
            [bucket |-> bucket,
             reply |-> [Response(405, <<"Method Not Allowed">>)
                          EXCEPT !.allow = "PUT, GET, DELETE"]]

\* One request served; log keeps the requests in the order they were served.
Fetch(method, pathname, body) ==
  /\ Len(proxy.log) < MaxOps
  /\ LET out == fetch(proxy.bucket, method, pathname, body)
     IN proxy' = [bucket |-> out.bucket,
                  log |-> Append(proxy.log, [method |-> method, pathname |-> pathname,
                                             body |-> body]),
                  reply |-> out.reply]
  /\ UNCHANGED <<disk, jobs, nextJobId, preloadCache, req, extracted, search>>

NextProxy ==
  \E method \in Methods, pathname \in Pathnames :
    \E body \in (IF method = "PUT" THEN Bodies ELSE {<<>>}) :
      Fetch(method, pathname, body)

SpecProxy == Init /\ [][NextProxy]_vars

\* ================================================================ claims
Finished(r) == req[r].pc = "done"

\* The request was parsed and resolved (resolveDocsRequest returned).
WasResolved(r) ==
  /\ req[r].op \in {"trigger", "serve"}
  /\ packageFromPath(req[r].path).ok
  /\ ~req[r].res.threw

\* The jobs in the queue for one concrete (name, version).
JobsFor(name, version) ==
  {id \in DOMAIN jobs : jobs[id].name = name /\ jobs[id].version = version}

\* The request has submitted (or attached to) a job after a Miss.
HoldsJob(r) == WasResolved(r) /\ req[r].res.type = "miss" /\ req[r].adds > 0

\* C1: whatever the endpoints, the requests that resolved to Miss for one
\* concrete (name, exactVersion) have created a single job in the queue, and each
\* of them holds the job id "{name}@{exactVersion}".
C1_OneJobPerConcreteVersion ==
  \A r \in Req : HoldsJob(r) =>
    /\ req[r].job = JobId(req[r].res.packageName, req[r].res.packageVersion)
    /\ Cardinality(JobsFor(req[r].res.packageName, req[r].res.packageVersion)) <= 1

\* C2: a forced request that resolves always submits to the queue, even when the
\* artifact is on disk, and the forced requests for one concrete version have
\* created a single job.
C2_ForcedRequestsCollapse ==
  /\ \A r \in Req : WasResolved(r) /\ req[r].force /\ Finished(r) => req[r].adds = 1
  /\ \A r \in Req : HoldsJob(r) /\ req[r].force =>
       Cardinality({id \in JobsFor(req[r].res.packageName, req[r].res.packageVersion) :
                      jobs[id].force}) <= 1

\* C3: a request without force that names an exact version whose index.html is on
\* disk when the request arrives is a Hit, calls no registry resolver, adds no
\* job, and is answered at once.
C3_ExactHitSkipsRegistryAndQueue ==
  [][\A r \in Req :
       LET det == packageFromPath(req'[r].path)
       IN (/\ req[r].pc = "idle" /\ req'[r].op \in {"trigger", "serve"}
           /\ ~req'[r].force /\ det.ok /\ semverValid(det.packageVersion)
           /\ checkFileExists(disk,
                IndexOf(getDocsPath(det.packageName, det.packageVersion))))
          => /\ req'[r].res.type = "hit"
             /\ ~req'[r].res.registry
             /\ req'[r].res.packageName = det.packageName
             /\ req'[r].res.packageVersion = det.packageVersion
             /\ req'[r].pc = "done" /\ req'[r].adds = 0
             /\ jobs' = jobs]_vars

C3_Witness ==
  \E r \in Req :
    /\ Finished(r) /\ req[r].op = "trigger" /\ ~req[r].force
    /\ req[r].path = <<"pkgA", "2.3.1">>
    /\ req[r].res.type = "hit" /\ ~req[r].res.registry
    /\ req[r].resp.status = "success"

\* The manifest the registry gives for the request's path.
ManifestOf(r) ==
  resolvePackageJSON(packageFromPath(req[r].path).packageName,
                     packageFromPath(req[r].path).packageVersion)

\* C4: a finished trigger answers {status: "success"} and has submitted nothing
\* after a Hit; after a Miss it has submitted once and answers {status: "queued",
\* jobId, pollInterval} with jobId = "{name}@{exactVersion}" of the resolved
\* manifest and pollInterval = 2000, so two specifiers that resolve to the same
\* concrete version get the same jobId.
C4_TriggerResponse ==
  /\ \A r \in Req : (Finished(r) /\ req[r].op = "trigger" /\ WasResolved(r)) =>
       IF req[r].res.type = "hit"
       THEN /\ req[r].resp.kind = "json" /\ req[r].resp.status = "success"
            /\ req[r].adds = 0 /\ req[r].resp.jobId = NoJob
       ELSE /\ req[r].resp.kind = "json" /\ req[r].resp.status = "queued"
            /\ req[r].resp.jobId = <<ManifestOf(r).name, "@", ManifestOf(r).version>>
            /\ req[r].resp.pollInterval = 2000
            /\ req[r].adds = 1
  /\ \A r1, r2 \in Req :
       (/\ Finished(r1) /\ Finished(r2)
        /\ req[r1].op = "trigger" /\ req[r2].op = "trigger"
        /\ WasResolved(r1) /\ WasResolved(r2)
        /\ req[r1].res.type = "miss" /\ req[r2].res.type = "miss"
        /\ ManifestOf(r1) = ManifestOf(r2))
       => req[r1].resp.jobId = req[r2].resp.jobId

C4_Witness ==
  \E r1, r2 \in Req :
    /\ Finished(r1) /\ Finished(r2)
    /\ req[r1].op = "trigger" /\ req[r2].op = "trigger"
    /\ req[r1].path = <<"pkgA", "^2">> /\ req[r2].path = <<"pkgA", "^2.3">>
    /\ req[r1].resp.status = "queued" /\ req[r2].resp.status = "queued"
    /\ req[r1].resp.jobId = <<"pkgA", "@", "2.3.1">>
    /\ req[r2].resp.jobId = <<"pkgA", "@", "2.3.1">>
    /\ Cardinality(DOMAIN jobs) = 1

\* C5: the poll answers {status: "success"} iff the job is completed, {status:
\* "failed", errorCode} with the job's failure reason iff it is failed, {status:
\* "queued"} iff it exists and is queued or active, and the 404 status, which is
\* none of these, iff no job has that id.
C5_PollResponse ==
  [][\A r \in Req :
       (req[r].pc = "idle" /\ req'[r].op = "poll") =>
         LET id == req'[r].job
             resp == req'[r].resp
             exists == id \in DOMAIN jobs
         IN /\ req'[r].pc = "done"
            /\ (resp.kind = "json" /\ resp.status = "success")
                 <=> (exists /\ jobs[id].state = "completed")
            /\ (resp.kind = "json" /\ resp.status = "failed")
                 <=> (exists /\ jobs[id].state = "failed")
            /\ (resp.status = "failed" => resp.errorCode = jobs[id].failedReason)
            /\ (resp.kind = "json" /\ resp.status = "queued")
                 <=> (exists /\ jobs[id].state \in {"queued", "active"})
            /\ (resp.kind = "status" /\ resp.code = 404 /\ resp.status = "")
                 <=> ~exists
            /\ jobs' = jobs]_vars

C5_Witness ==
  \E r \in Req :
    /\ Finished(r) /\ req[r].op = "poll"
    /\ req[r].job = <<"pkgA", "@", "2.3.1">>
    /\ req[r].resp.status = "failed" /\ req[r].resp.errorCode = "build timeout"

\* C6: a serving request that resolved to Miss gets its response (redirect, file
\* or error) only in a step taken while the job it submitted is in a terminal
\* state; it has no response before.
C6_NoResponseBeforeJobEnds ==
  [][\A r \in Req :
       (/\ req'[r].op = "serve" /\ req'[r].res.type = "miss"
        /\ req[r].resp.kind = "none" /\ req'[r].resp.kind # "none")
       => /\ req[r].pc = "waiting"
          /\ req[r].job \in DOMAIN jobs
          /\ jobs[req[r].job].state \in Terminal]_vars

C6_Witness ==
  \E r \in Req :
    /\ Finished(r) /\ req[r].op = "serve" /\ req[r].res.type = "miss"
    /\ req[r].resp.kind = "redirect"
    /\ req[r].job \in DOMAIN jobs /\ jobs[req[r].job].state = "completed"

\* C7: when the job a serving request waits for has failed, the request ends with
\* the server error (no redirect, no file) and adds nothing more to the queue; a
\* serving request never submits more than once.
C7_FailedJobIsServerErrorNoRetry ==
  [][\A r \in Req :
       /\ (req[r].op = "serve" => req[r].adds <= 1)
       /\ (req'[r].op = "serve" => req'[r].adds <= 1)
       /\ (/\ req[r].pc = "waiting" /\ req'[r] # req[r]
           /\ jobs[req[r].job].state = "failed")
          => /\ req'[r].pc = "done"
             /\ req'[r].resp.kind = "error" /\ req'[r].resp.code = 500
             /\ req'[r].adds = 1
             /\ jobs' = jobs]_vars

C7_Witness ==
  \E r \in Req :
    /\ Finished(r) /\ req[r].op = "serve" /\ req[r].adds = 1
    /\ req[r].resp.kind = "error"
    /\ req[r].job \in DOMAIN jobs /\ jobs[req[r].job].state = "failed"

\* C8: once a serving request has been redirected to the canonical path P, a
\* request without force for P that arrives afterwards resolves to a Hit whose
\* canonical path is P and is answered with the file, not with a redirect.
C8_RedirectIdempotent ==
  [][\A r \in Req :
       (/\ req[r].pc = "idle" /\ req'[r].op = "serve" /\ ~req'[r].force
        /\ \E r1 \in Req :
             /\ Finished(r1) /\ req[r1].op = "serve"
             /\ req[r1].resp.kind = "redirect"
             /\ req[r1].resp.location = <<"docs">> \o req'[r].path)
       => /\ req'[r].res.type = "hit"
          /\ <<req'[r].res.packageName, req'[r].res.packageVersion>>
               \o packageFromPath(req'[r].path).docsFragment = req'[r].path
          /\ req'[r].pc = "done"
          /\ req'[r].resp.kind = "file"
          /\ req'[r].resp.location = req'[r].path]_vars

C8_Witness ==
  \E r1, r2 \in Req :
    /\ r1 < r2 /\ Finished(r1) /\ Finished(r2)
    /\ req[r1].path = <<"pkgA", "^2", "index.html">>
    /\ req[r1].resp.kind = "redirect"
    /\ req[r1].resp.location = <<"docs">> \o req[r2].path
    /\ ~req[r2].force /\ req[r2].res.type = "hit"
    /\ req[r2].resp.kind = "file"

\* The last segment of the request's fragment is a file name ending in ".html".
HtmlFragment(r) ==
  LET f == packageFromPath(req[r].path).docsFragment
  IN f # <<>> /\ f[Len(f)] \in {"index.html"}

C10_ExtractorOrder ==
  (extracted.called /\ ~extracted.threw) =>
    LET L == extracted.list
        html == disk[ExtractPath]
        styles == linkAssets(ExtractPath, html)
        scripts == scriptAssets(ExtractPath, html)
        k == Len(styles)
    IN /\ Len(L) = k + Len(scripts) + 1
       /\ \A i \in 1..k : L[i] = styles[i] /\ L[i].as = "style"
       /\ \A i \in 1..Len(scripts) : L[k + i] = scripts[i] /\ L[k + i].as = "script"
       /\ L[Len(L)] =
            [url |-> [abs |-> <<>>,
                      tail |-> <<"/", "shared-dist", "/", "header", ".", "umd", ".",
                                 "js">>],
             rel |-> "preload", as |-> "script"]
       /\ cacheHas(preloadCache, ExtractPath)
       /\ cacheGet(preloadCache, ExtractPath) = L

C10_Witness ==
  /\ extracted.called /\ ~extracted.threw
  /\ disk[ExtractPath] = <<Elem("script", SrcSharedX), Elem("link", HrefDotY)>>
  /\ Len(extracted.list) = 3
  /\ extracted.list[1].as = "style"
  /\ extracted.list[1].url =
       [abs |-> <<"/docs", "pkgB", "1.0.0">>, tail |-> <<"y", ".", "c", "s", "s">>]
  /\ extracted.list[2] = Descriptor(Unchanged(SrcSharedX), "script")

\* The search page has been rendered (with or without an exception).
Rendered == search.mounted \/ search.crashed

\* C11: for an empty package path the page shows the NO_PACKAGE_SPECIFIED error
\* and makes no downstream call (no getPackageDocs request).
C11_EmptyPathSurfacesError ==
  (Rendered /\ search.pkg = <<>>) =>
    /\ ~search.crashed
    /\ search.status = "error"
    /\ search.error.errorCode = "NO_PACKAGE_SPECIFIED"
    /\ search.calls = <<>>

\* C12: no request ends with an exception that left its handler: whatever is
\* thrown during resolution, job submission or waiting, or the response, is
\* answered as a structured error with the code UNKNOWN_ERROR.
C12_ExceptionsAreCaught ==
  \A r \in Req :
    Finished(r) =>
      /\ req[r].resp.kind # "error"
      /\ (req[r].res.threw =>
            req[r].resp.kind = "json" /\ req[r].resp.errorCode = "UNKNOWN_ERROR")

\* C13: a request whose specifier the registry cannot resolve adds no job (the
\* queue is as before) and ends at once with an error response, never with a
\* "success" or "queued" status.
C13_RegistryFailureNoJob ==
  [][\A r \in Req :
       LET det == packageFromPath(req'[r].path)
       IN (/\ req[r].pc = "idle" /\ req'[r].op \in {"trigger", "serve"}
           /\ det.ok
           /\ ~resolvePackageJSON(det.packageName, det.packageVersion).ok)
          => /\ jobs' = jobs
             /\ req'[r].pc = "done" /\ req'[r].adds = 0
             /\ req'[r].resp.kind = "error" /\ req'[r].resp.code = 500
             /\ req'[r].resp.status \notin {"success", "queued"}]_vars

C13_Witness ==
  \E r \in Req :
    /\ Finished(r) /\ req[r].op = "trigger" /\ req[r].path = <<"pkgA", "^9">>
    /\ req[r].res.threw /\ req[r].resp.kind = "error" /\ req[r].adds = 0
    /\ \A id \in DOMAIN jobs : jobs[id].version # "^9"

\* C14: a trigger or serving request whose path does not parse into a package
\* reference is answered 404 at once; resolveDocsRequest is never entered (no
\* registry lookup, no disk probe) and nothing is added to the queue.
C14_UnparsablePathNotFound ==
  \A r \in Req :
    (req[r].op \in {"trigger", "serve"} /\ ~packageFromPath(req[r].path).ok) =>
      /\ req[r].pc = "done"
      /\ req[r].resp.code = 404
      /\ (req[r].op = "trigger" => req[r].resp = NotFoundBody)
      /\ req[r].res = NoResolution /\ ~req[r].res.registry
      /\ req[r].adds = 0 /\ req[r].job = NoJob

C14_Witness ==
  /\ \E r \in Req : Finished(r) /\ req[r].op = "trigger" /\ req[r].path = <<"">>
                    /\ req[r].resp = NotFoundBody
  /\ \E r \in Req : Finished(r) /\ req[r].op = "serve" /\ req[r].path = <<"">>
                    /\ req[r].resp.code = 404
  /\ DOMAIN jobs = {}

\* C15: a request the registry can resolve and that does not leave by the
\* exact-version fast path consults the registry; its outcome carries the
\* manifest's name, version and artifact path; without force it is a hit exactly
\* when the manifest version's index.html is on disk at the time of the call,
\* and with force it is a miss whatever the disk holds.
C15_SlowPathOutcome ==
  [][\A r \in Req :
       LET det == packageFromPath(req'[r].path)
           force == req'[r].force
           packageJSON == resolvePackageJSON(det.packageName, det.packageVersion)
           fast == /\ ~force /\ semverValid(det.packageVersion)
                   /\ IndexOf(getDocsPath(det.packageName, det.packageVersion))
                        \in DOMAIN disk
           marker == IndexOf(getDocsPath(packageJSON.name, packageJSON.version))
           out == req'[r].res
       IN (/\ req[r].pc = "idle" /\ req'[r].op \in {"trigger", "serve"}
           /\ det.ok /\ packageJSON.ok /\ ~fast)
          => /\ out.registry /\ ~out.threw
             /\ out.packageName = packageJSON.name
             /\ out.packageVersion = packageJSON.version
             /\ out.docsPathDisk = getDocsPath(packageJSON.name, packageJSON.version)
             /\ (force => out.type = "miss")
             /\ (~force => (out.type = "hit" <=> marker \in DOMAIN disk))
             /\ (~force => (out.type = "miss" <=> marker \notin DOMAIN disk))]_vars

C15_Witness ==
  /\ \E r \in Req :
       /\ Finished(r) /\ req[r].op = "trigger" /\ req[r].path = <<"pkgA", "^2">>
       /\ req[r].res.registry /\ req[r].res.type = "hit"
       /\ req[r].res.packageVersion = "2.3.1"
       /\ req[r].res.docsPathDisk = getDocsPath("pkgA", "2.3.1")
  /\ \E r \in Req :
       /\ req[r].force /\ req[r].res.registry /\ req[r].res.type = "miss"

\* The serving request is suspended in waitUntilFinished.
Suspended(r) == req[r].op = "serve" /\ req[r].pc = "waiting"

\* C16: the serving requests suspended on one concrete version wait for one and
\* the same job, so that this job's end releases all of them: none of them is
\* still suspended on a job of that version once another one's job has ended.
C16_OneJobReleasesAllWaiters ==
  \A r1, r2 \in Req :
    (/\ Suspended(r1) /\ Suspended(r2)
     /\ req[r1].res.packageName = req[r2].res.packageName
     /\ req[r1].res.packageVersion = req[r2].res.packageVersion)
    => /\ req[r1].job = req[r2].job
       /\ (jobs[req[r1].job].state \in Terminal
             => jobs[req[r2].job].state \in Terminal)

\* The entries (key and list) a cache holds; a key occurs once.
Entries(cache) == {cache[i] : i \in 1..Len(cache)}

\* C17: an entry of the preload cache keeps its list until it is the least
\* recently used of max entries and a new key is stored; a call of
\* extractPreloadResources for a cached path returns the stored list whatever
\* the file holds by then; and writing a page again leaves the cache as it is.
C17_CacheNeverInvalidated ==
  [][/\ LET lost == Entries(preloadCache) \ Entries(preloadCache')
        IN \/ lost = {}
           \/ /\ Len(preloadCache) = max /\ lost = {preloadCache[max]}
              /\ ~cacheHas(preloadCache', preloadCache[max].key)
              /\ Len(preloadCache') = max
              /\ ~cacheHas(preloadCache, preloadCache'[1].key)
     /\ (disk' = disk /\ cacheHas(preloadCache, extracted'.path))
          => /\ ~extracted'.threw
             /\ extracted'.list = cacheGet(preloadCache, extracted'.path)
     /\ disk' # disk => preloadCache' = preloadCache]_vars

\* A stale list is returned for a page written again, while the first page's
\* entry has been evicted.
C17_Witness ==
  /\ extracted.called /\ ~extracted.threw
  /\ extracted.path = CachePaths[2]
  /\ extracted.list = cacheGet(preloadCache, extracted.path)
  /\ extracted.list # preloadAssets(extracted.path, disk[extracted.path])
  /\ Len(preloadCache) = max /\ ~cacheHas(preloadCache, CachePaths[1])

\* An absolute URL (with a scheme) or a protocol-relative one.
External(ref) ==
  \/ StartsWith(ref, <<"h", "t", "t", "p", ":", "/", "/">>)
  \/ StartsWith(ref, <<"h", "t", "t", "p", "s", ":", "/", "/">>)
  \/ StartsWith(ref, <<"/", "/">>)

\* C18: the list holds no descriptor whose url is an external reference
\* (absolute or protocol-relative), and holds the rewritten descriptor of every
\* script src and every CSS link href that is a relative local reference.
C18_ExternalDroppedLocalKept ==
  (extracted.called /\ ~extracted.threw) =>
    LET L == extracted.list
        html == disk[ExtractPath]
    IN /\ \A i \in 1..Len(L) : L[i].url.abs = <<>> => ~External(L[i].url.tail)
       /\ \A j \in 1..Len(html) :
            LET e == html[j]
                local == e.has /\ e.val # <<>> /\ ~External(e.val)
                         /\ ~StartsWith(e.val, <<"/">>)
            IN /\ (e.tag = "script" /\ local)
                    => \E i \in 1..Len(L) :
                         L[i] = Descriptor(relativeDocsUrl(ExtractPath, e.val), "script")
               /\ (e.tag = "link" /\ local
                   /\ EndsWith(SplitHead(e.val, "?"), <<".", "c", "s", "s">>))
                    => \E i \in 1..Len(L) :
                         L[i] = Descriptor(relativeDocsUrl(ExtractPath, e.val), "style")

\* C19: the outcome the search page has applied is that of the search submitted
\* last: a redirect goes to the docs of the last submitted package, and an error
\* shown comes from a getPackageDocs call for the last submitted package, never
\* from a call for an earlier package that ended late.
C19_LatestSearchWins ==
  LET last == Len(search.calls)
  IN /\ search.href # <<>> =>
          search.href = <<"docs">> \o search.calls[last].pkg \o <<"index.html">>
     /\ (search.applied # 0 /\ search.status = "error") =>
          search.calls[search.applied].pkg = search.calls[last].pkg

\* The keys the requests of a behaviour name: the pathname without its "/".
Keys == { SubSeq(p, 2, Len(p)) : p \in Pathnames }

\* The PUT and DELETE requests for key k among the first n requests served.
WritesTo(k, n) ==
  { i \in 1..n : /\ proxy.log[i].method \in {"PUT", "DELETE"}
                 /\ SubSeq(proxy.log[i].pathname, 2, Len(proxy.log[i].pathname)) = k }

LastWrite(k, n) == CHOOSE i \in WritesTo(k, n) : \A j \in WritesTo(k, n) : j <= i

\* Key k holds an object after the first n requests: its last write is a PUT.
Stored(k, n) ==
  WritesTo(k, n) # {} /\ proxy.log[LastWrite(k, n)].method = "PUT"

\* C20: after any sequence of requests, the bucket holds for each key the body
\* of the latest PUT that no DELETE of that key follows, and nothing for a key
\* never put or deleted since (so a PUT or DELETE changes its own key only and
\* other methods change nothing); the response to a GET of k is that body, or 404
\* "Object Not Found"; the response to any other method than PUT, GET and DELETE
\* is 405 with Allow "PUT, GET, DELETE".
C20_ProxyIsKeyValueStore ==
  LET n == Len(proxy.log)
  IN /\ DOMAIN proxy.bucket \subseteq Keys
     /\ \A k \in Keys :
          /\ k \in DOMAIN proxy.bucket <=> Stored(k, n)
          /\ Stored(k, n) => proxy.bucket[k] = proxy.log[LastWrite(k, n)].body
     /\ n > 0 =>
          LET last == proxy.log[n]
              k == SubSeq(last.pathname, 2, Len(last.pathname))
          IN /\ last.method = "GET" =>
                  IF Stored(k, n - 1)
                  THEN /\ proxy.reply.status = 200
                       /\ proxy.reply.body = proxy.log[LastWrite(k, n - 1)].body
                  ELSE /\ proxy.reply.status = 404
                       /\ proxy.reply.body = <<"Object Not Found">>
             /\ last.method \notin {"PUT", "GET", "DELETE"} =>
                  /\ proxy.reply.status = 405
                  /\ proxy.reply.allow = "PUT, GET, DELETE"

\* A key put, deleted and then fetched: not found.
C20_Witness ==
  /\ Len(proxy.log) = 3
  /\ proxy.log[1] = [method |-> "PUT", pathname |-> <<"/", "a">>, body |-> <<"v1">>]
  /\ proxy.log[2].method = "DELETE" /\ proxy.log[2].pathname = <<"/", "a">>
  /\ proxy.log[3].method = "GET" /\ proxy.log[3].pathname = <<"/", "a">>
  /\ proxy.reply.status = 404 /\ proxy.reply.body = <<"Object Not Found">>
  /\ <<"a">> \notin DOMAIN proxy.bucket

====
